---- MODULE Spec2Model ----
(***************************************************************************)
(* Model of src/bin/parse_coins.rs: the generator that turns the SLIP-0044 *)
(* markdown table into the coins!( ... ) table of src/coin.rs.             *)
(*                                                                         *)
(* A string is a sequence of characters.  An ASCII character is the        *)
(* one-character string itself; the double quote, the backslash, the      *)
(* backtick, the tab and every non-ASCII character are written by their   *)
(* code point ("U+0022").                                                  *)
(* Option<T> is a sequence of length 0 (None) or 1 (Some).                 *)
(***************************************************************************)
EXTENDS Integers, Sequences, FiniteSets, TLC

(***************************** characters ********************************)

AsciiDigit == {"0","1","2","3","4","5","6","7","8","9"}

AsciiAlpha ==
  {"a","b","c","d","e","f","g","h","i","j","k","l","m",
   "n","o","p","q","r","s","t","u","v","w","x","y","z",
   "A","B","C","D","E","F","G","H","I","J","K","L","M",
   "N","O","P","Q","R","S","T","U","V","W","X","Y","Z"}

\* Characters outside ASCII with the Unicode Numeric property (one half).
NonAsciiNumeric == {"U+00BD"}

\* char::is_whitespace, as used by str::trim
WhiteSpace == {" ", "U+0009"}

is_ascii_alphanumeric(ch) == ch \in AsciiDigit \cup AsciiAlpha

\* char::is_numeric: Unicode Nd, Nl and No, not only 0-9
is_numeric(ch) == ch \in AsciiDigit \cup NonAsciiNumeric

(************************** string helpers *******************************)

\* Index of the first occurrence of ch in s from index i on, 0 when there
\* is none.
RECURSIVE IndexFrom(_, _, _)
IndexFrom(s, ch, i) ==
  IF i > Len(s) THEN 0
  ELSE IF s[i] = ch THEN i
  ELSE IndexFrom(s, ch, i + 1)

\* Index of the first occurrence of ch in s, 0 when there is none.
IndexOf(s, ch) == IndexFrom(s, ch, 1)

\* str::replace(ch, "")
Remove(s, ch) == SelectSeq(s, LAMBDA x : x # ch)

RECURSIVE TrimStart(_)
TrimStart(s) ==
  IF s # <<>> /\ Head(s) \in WhiteSpace THEN TrimStart(Tail(s)) ELSE s

RECURSIVE TrimEnd(_)
TrimEnd(s) ==
  IF s # <<>> /\ s[Len(s)] \in WhiteSpace
  THEN TrimEnd(SubSeq(s, 1, Len(s) - 1))
  ELSE s

\* str::trim
Trim(s) == TrimEnd(TrimStart(s))

\* str::split(ch): one piece more than there are delimiters
RECURSIVE Split(_, _)
Split(s, ch) ==
  LET i == IndexOf(s, ch)
  IN  IF i = 0
      THEN <<s>>
      ELSE <<SubSeq(s, 1, i - 1)>> \o Split(SubSeq(s, i + 1, Len(s)), ch)

\* str::split_once('(') followed by map_or: the part before the first '('
BeforeParen(s) ==
  LET i == IndexOf(s, "(")
  IN  IF i = 0 THEN s ELSE SubSeq(s, 1, i - 1)

\* Itertools::join
RECURSIVE Join(_, _)
Join(parts, sep) ==
  IF parts = <<>> THEN <<>>
  ELSE IF Len(parts) = 1 THEN parts[1]
  ELSE parts[1] \o sep \o Join(Tail(parts), sep)

DigitChars == <<"0","1","2","3","4","5","6","7","8","9">>

\* Display for u32
RECURSIVE ToDec(_)
ToDec(n) ==
  IF n < 10
  THEN <<DigitChars[n + 1]>>
  ELSE ToDec(n \div 10) \o <<DigitChars[(n % 10) + 1]>>

DigitVal(ch) == CHOOSE d \in 0..9 : DigitChars[d + 1] = ch

RECURSIVE DigitsVal(_, _)
DigitsVal(s, acc) ==
  IF s = <<>> THEN acc ELSE DigitsVal(Tail(s), 10 * acc + DigitVal(Head(s)))

\* str::parse::<u32>: an optional '+', then one or more ASCII digits.
\* (Every id cell of the model is far below 2^32: the overflow error of
\* the parser is not exercised.)
parse_u32(s) ==
  LET t == IF s # <<>> /\ Head(s) = "+" THEN Tail(s) ELSE s
  IN  IF t = <<>> \/ \E i \in 1..Len(t) : t[i] \notin AsciiDigit
      THEN <<>>
      ELSE <<DigitsVal(t, 0)>>

(************************ the named functions ****************************)

prepend_enum(name) ==
  IF name # <<>> /\ is_numeric(Head(name))
  THEN <<"_">> \o name
  ELSE name

Ok(v) == [ok |-> TRUE, val |-> v]
Err(e) == [ok |-> FALSE, val |-> e]

\* the special-character overrides of original_name_to_short
SpecialNames ==
  { <<<<"P","l","^","g">>, <<"P","l","u","g">>>>,
    <<<<"B","i","t","c","o","i","n","M","a","t","t","e","o","'","s","V","i","s","i","o","n">>, <<"B","i","t","c","o","i","n","M","a","t","t","e","o","s","V","i","s","i","o","n">>>>,
    <<<<"C","r","y","p","t","o",".","o","r","g","C","h","a","i","n">>, <<"C","r","y","p","t","o","O","r","g","C","h","a","i","n">>>>,
    <<<<"C","o","c","o","s","-","B","C","X">>, <<"C","o","c","o","s","B","C","X">>>>,
    <<<<"C","a","p","r","i","c","o","i","n","+">>, <<"C","a","p","r","i","c","o","i","n","P","l","u","s">>>>,
    <<<<"S","e","e","l","e","-","N">>, <<"S","e","e","l","e","N">>>>,
    <<<<"I","Q","-","C","a","s","h">>, <<"I","Q","C","a","s","h">>>>,
    <<<<"X","i","n","F","i","n",".","N","e","t","w","o","r","k">>, <<"X","i","n","F","i","n","N","e","t","w","o","r","k">>>>,
    <<<<"U","n","i","t","-","e">>, <<"U","n","i","t","E">>>>,
    <<<<"H","A","R","M","O","N","Y","-","O","N","E">>, <<"H","a","r","m","o","n","y","O","n","e">>>>,
    <<<<"T","h","e","P","o","w","e","r",".","i","o">>, <<"T","h","e","P","o","w","e","r">>>>,
    <<<<"e","v","a","n",".","n","e","t","w","o","r","k">>, <<"E","v","a","n","N","e","t","w","o","r","k">>>>,
    <<<<"E","t","h","e","r","-","1">>, <<"E","t","h","e","r","O","n","e">>>>,
    <<<<"U+00E6","t","e","r","n","i","t","y">>, <<"a","e","t","e","r","n","i","t","y">>>>,
    <<<<"U+03B8">>, <<"T","h","e","t","a">>>> }

\* the direct mappings of original_name_to_short
DirectNames ==
  { <<<<"E","t","h","e","r">>, <<"E","t","h","e","r","e","u","m">>>>,
    <<<<"E","t","h","e","r","C","l","a","s","s","i","c">>, <<"E","t","h","e","r","e","u","m","C","l","a","s","s","i","c">>>> }

Lookup(table, key, default) ==
  IF \E p \in table : p[1] = key
  THEN (CHOOSE p \in table : p[1] = key)[2]
  ELSE default

IsIrregular(name) ==
  \E i \in 1..Len(name) : ~is_ascii_alphanumeric(name[i]) /\ name[i] # "_"

original_name_to_short(original_name) ==
  LET name == prepend_enum(BeforeParen(Remove(original_name, " ")))
      name_match == Lookup(DirectNames, name, name)
  IN  IF IsIrregular(name)
      THEN IF \E p \in SpecialNames : p[1] = name
           THEN Ok(Lookup(SpecialNames, name, name))
           ELSE Err(<<"u","n","k","n","o","w","n"," ","o","r","i","g","i","n","a","l"," ","c","o","i","n"," ","n","a","m","e"," ","U+0060">> \o name \o <<"U+0060">>)
      ELSE Ok(name_match)

\* the characters escape_rust_string removes by replace()
Stripped == {"@", "^", "'", "U+0022", "U+005C", "$"}

\* the characters escape_rust_string keeps besides ASCII alphanumerics
Allowed == {"_", " ", "-", "+", ".", "(", ")"}

escape_rust_string(s) ==
  SelectSeq(SelectSeq(s, LAMBDA c : c \notin Stripped),
            LAMBDA c : is_ascii_alphanumeric(c) \/ c \in Allowed)

(***************************** the records *******************************)

\* the key of the first HashMap: (symbol, name, original_name)
KeyOf(coin_type) ==
  <<coin_type.symbol, coin_type.name, coin_type.original_name>>

EmptyMap == [k \in {} |-> <<>>]

\* HashMap: the map m with key k bound to v
Put(m, k, v) == [x \in DOMAIN m \cup {k} |-> IF x = k THEN v ELSE m[x]]

\* HashMap: the map m without key k (an entry moved out by into_iter)
Without(m, k) == [x \in DOMAIN m \ {k} |-> m[x]]

\* BuildSymbol without the filter that drops the empty symbol
BuildSymbolKeepEmpty(cell) ==
  LET prefixed == prepend_enum(Trim(cell))
  IN  <<IF prefixed = <<"$","D","A","G">> THEN <<"D","A","G">> ELSE prefixed>>

\* the symbol field of the record built from a table line
BuildSymbol(cell) ==
  LET prefixed == prepend_enum(Trim(cell))
      symbol == IF prefixed = <<"$","D","A","G">> THEN <<"D","A","G">> ELSE prefixed
  IN  IF symbol = <<>> THEN <<>> ELSE <<symbol>>

\* the closure of filter_map: None, or Some(CoinType) with ids still empty
ParseRow(line) ==
  LET columns == Split(line, "|")
  IN  IF Len(columns) # 6 THEN <<>>
      ELSE
        LET original_name == Trim(columns[5])
        IN  IF original_name = <<>> \/ original_name = <<"r","e","s","e","r","v","e","d">> THEN <<>>
            ELSE
              LET name == original_name_to_short(original_name)
              IN  IF ~name.ok THEN <<>>
                  ELSE
                    LET id == parse_u32(Trim(columns[2]))
                    IN  IF id = <<>> THEN <<>>
                        ELSE << [ id |-> id[1],
                                  ids |-> <<>>,
                                  path_component |-> Trim(columns[3]),
                                  symbol |-> BuildSymbol(columns[4]),
                                  name |-> name.val,
                                  original_name |-> original_name,
                                  rustdoc_lines |-> <<>> ] >>

\* the closure of the first fold: entry(key).or_insert(coin_type).ids.push(id)
FoldIdentity(acc, coin_type) ==
  LET key == KeyOf(coin_type)
      entry == IF key \in DOMAIN acc THEN acc[key] ELSE coin_type
  IN  Put(acc, key, [entry EXCEPT !.ids = Append(@, coin_type.id)])

\* the first fold over a whole sequence of records
RECURSIVE IdentityMerge(_, _)
IdentityMerge(acc, coin_types) ==
  IF coin_types = <<>> THEN acc
  ELSE IdentityMerge(FoldIdentity(acc, Head(coin_types)), Tail(coin_types))

\* the closure of the second fold: entry(name).or_default().push(coin_type)
FoldName(acc, coin_type) ==
  LET group == IF coin_type.name \in DOMAIN acc
               THEN acc[coin_type.name] ELSE <<>>
  IN  Put(acc, coin_type.name, Append(group, coin_type))

\* the second fold over a whole sequence of records
RECURSIVE GroupByName(_, _)
GroupByName(acc, coin_types) ==
  IF coin_types = <<>> THEN acc
  ELSE GroupByName(FoldName(acc, Head(coin_types)), Tail(coin_types))

\* the entries of a HashMap in the orders its into_iter may yield them:
\* every order of its keys
Orders(m) ==
  {order \in [1..Cardinality(DOMAIN m) -> DOMAIN m] :
     \A i, j \in 1..Cardinality(DOMAIN m) : i # j => order[i] # order[j]}

Values(m, order) == [i \in 1..Len(order) |-> m[order[i]]]

IdsText(ids, sep) == Join([i \in 1..Len(ids) |-> ToDec(ids[i])], sep)

\* the renaming of a member of a group of more than one record
Disambiguate(coin_type) ==
  [coin_type EXCEPT !.name =
     @ \o <<"_">> \o (IF coin_type.symbol # <<>>
                   THEN coin_type.symbol[1]
                   ELSE IdsText(coin_type.ids, <<"_">>))]

\* the three rustdoc lines of a record
Annotate(coin_type) ==
  [coin_type EXCEPT !.rustdoc_lines =
     << <<"/","/","/"," ","C","o","i","n"," ","t","y","p","e",":"," ">> \o IdsText(coin_type.ids, <<","," ">>),
        IF coin_type.symbol # <<>>
        THEN <<"/","/","/"," ","S","y","m","b","o","l",":"," ">> \o coin_type.symbol[1]
        ELSE <<>>,
        <<"/","/","/"," ","C","o","i","n",":"," ">> \o coin_type.original_name >>]

\* the closure mapped over the groups of the second HashMap
MapGroup(group) ==
  LET renamed == IF Len(group) > 1
                 THEN [i \in 1..Len(group) |-> Disambiguate(group[i])]
                 ELSE group
  IN  [i \in 1..Len(renamed) |-> Annotate(renamed[i])]

\* Iterator::flatten over the mapped groups
RECURSIVE Flatten(_)
Flatten(groups) ==
  IF groups = <<>> THEN <<>>
  ELSE MapGroup(Head(groups)) \o Flatten(Tail(groups))

\* one insertion of the stable sort: x goes after every record whose id is
\* not greater
InsertByKey(s, x) ==
  LET n == Cardinality({i \in 1..Len(s) : s[i].id <= x.id})
  IN  SubSeq(s, 1, n) \o <<x>> \o SubSeq(s, n + 1, Len(s))

RECURSIVE SortInto(_, _)
SortInto(done, rest) ==
  IF rest = <<>> THEN done
  ELSE SortInto(InsertByKey(done, Head(rest)), Tail(rest))

\* sorted_by_key left out: the records in the order of the iterator
Unsorted(s) == s

\* Itertools::sorted_by_key(|coin_type| coin_type.id): a stable sort
sorted_by_key(s) == SortInto(<<>>, s)

\* the arguments of the writeln! of one table entry
Entry(coin_type, seen) ==
  LET escaped_symbol ==
        IF coin_type.symbol = <<>> THEN <<>>
        ELSE <<escape_rust_string(coin_type.symbol[1])>>
  IN  [ doc |-> SelectSeq(coin_type.rustdoc_lines, LAMBDA l : l # <<>>),
        ids |-> IdsText(coin_type.ids, <<",">>),
        name |-> coin_type.name,
        original_name |-> escape_rust_string(coin_type.original_name),
        symbol_ident |->
          IF escaped_symbol = <<>> THEN <<>>
          ELSE IF escaped_symbol[1] \in seen THEN <<>>
          ELSE escaped_symbol[1],
        symbol_alias |->
          IF escaped_symbol = <<>> THEN <<>>
          ELSE IF escaped_symbol[1] \in seen
               THEN <<"U+0022">> \o escaped_symbol[1] \o <<"U+0022">>
               ELSE <<>> ]

\* SeenAfter with the symbol inserted as the record holds it, not escaped
SeenAfterUnescaped(coin_type, seen) ==
  IF coin_type.symbol = <<>> THEN seen
  ELSE seen \cup {coin_type.symbol[1]}

\* seen_symbols after the writeln! of one table entry
SeenAfter(coin_type, seen) ==
  IF coin_type.symbol = <<>> THEN seen
  ELSE seen \cup {escape_rust_string(coin_type.symbol[1])}

(****************************** the input ********************************)

SLIP_044_MARKDOWN_HEADER ==
  <<"|"," ","C","o","i","n"," ","t","y","p","e"," "," ","|"," ","P","a","t","h"," ","c","o","m","p","o","n","e","n","t"," ","(","U+0060","c","o","i","n","_","t","y","p","e","'","U+0060",")"," ","|"," ","S","y","m","b","o","l"," "," ","|"," ","C","o","i","n"," "," "," "," "," "," "," "," "," "," "," "," "," "," "," "," "," "," "," "," "," "," "," "," "," "," "," "," "," "," ","|">>

\* the line under the header, which skip(2) drops unread
SeparatorLine == <<"|"," ","-","-","-","-","-","-","-","-","-","-"," ","|"," ","-","-","-","-","-","-","-","-","-","-","-","-","-","-","-","-","-","-","-","-","-","-","-","-","-","-","-","-","-"," ","|"," ","-","-","-","-","-","-","-"," ","|"," ","-","-","-","-","-","-","-","-","-","-","-","-","-","-","-","-","-","-","-","-","-","-","-","-","-","-","-","-","-","-","-","-","-"," ","|">>

\* a line before the table
TitleLine == <<"#"," ","R","e","g","i","s","t","e","r","e","d"," ","c","o","i","n"," ","t","y","p","e","s">>

Line(id, path, symbol, name) ==
  <<"|">> \o id \o <<"|">> \o path \o <<"|">> \o symbol \o <<"|">> \o name \o <<"|">>

\* the table lines the inputs are drawn from
CandidateLines ==
  { Line(<<"1">>, <<"1","'">>, <<"F">>, <<"U","n","i","t","E">>),
    Line(<<"3">>, <<"3","'">>, <<"F">>, <<"U","n","i","t","E">>),
    Line(<<" ","2"," ">>, <<" ","2","'"," ">>, <<" ","F"," ">>, <<" ","U","n","i","t"," ","-","e"," ">>),
    Line(<<"1">>, <<"1","'">>, <<>>, <<"U","n","i","t","E">>),
    Line(<<"3">>, <<"3","'">>, <<"$","F">>, <<"U","n","i","t","E","_","F">>),
    Line(<<"3">>, <<"3","'">>, <<"1","-">>, <<"U","n","i","t","E">>),
    Line(<<"4">>, <<"4","'">>, <<"$","D","A","G">>, <<"(","x",")">>),
    Line(<<"6","0">>, <<"6","0","'">>, <<"U+20BF">>, <<"E","t","h","e","r">>),
    Line(<<"x">>, <<"0","'">>, <<"F">>, <<"U","n","i","t","E">>),
    Line(<<"1">>, <<"1","'">>, <<"F">>, <<"A","-","B">>),
    <<"|","1","|","F","|","U","n","i","t","E","|">>,
    Line(<<"1">>, <<"1","'">>, <<"F">>, <<" ","r","e","s","e","r","v","e","d"," ">>),
    Line(<<"1">>, <<"1","'">>, <<"F">>, <<" "," ">>) }

\* the largest number of table lines of an input
MaxLines == 3

RowSeqs == UNION {[1..n -> CandidateLines] : n \in 0..MaxLines}

\* markdown_content.split("\n") of the documents the model reads
Documents ==
  {<<TitleLine, SLIP_044_MARKDOWN_HEADER, SeparatorLine>> \o rows : rows \in RowSeqs}
    \cup {<<TitleLine>>}

(****************************** the state ********************************)

VARIABLES
  markdown,      \* the lines of the fetched document
  pc,            \* the stage main is in, "done" and "failed" once returned
  pos,           \* the index of the next line the line iterator yields
  coin_map,      \* the HashMap of the first fold (identity merge)
  name_map,      \* the HashMap of the second fold (groups by name)
  sorted,        \* the records sorted_by_key yields to the for loop
  seen_symbols,  \* the HashSet of the symbols written bare
  coin_count,    \* the counter of the for loop: the records written
  file,          \* the table entries written to coin.rs
  prev_file      \* the entries an earlier run wrote from the same document

vars == <<markdown, pc, pos, coin_map, name_map, sorted,
          seen_symbols, coin_count, file, prev_file>>

Init ==
  /\ markdown \in Documents
  /\ pc = "skip"
  /\ pos = 1
  /\ coin_map = EmptyMap
  /\ name_map = EmptyMap
  /\ sorted = <<>>
  /\ seen_symbols = {}
  /\ coin_count = 0
  /\ file = <<>>
  /\ prev_file = <<>>

\* skip_while: a line before the header
SkipLine ==
  /\ pc = "skip"
  /\ pos <= Len(markdown)
  /\ markdown[pos] # SLIP_044_MARKDOWN_HEADER
  /\ pos' = pos + 1
  /\ UNCHANGED <<markdown, pc, coin_map, name_map, sorted,
                 seen_symbols, coin_count, file, prev_file>>

\* skip_while stops at the header; skip(2) drops it and the next line
FoundHeader ==
  /\ pc = "skip"
  /\ pos <= Len(markdown)
  /\ markdown[pos] = SLIP_044_MARKDOWN_HEADER
  /\ pos' = pos + 2
  /\ pc' = "rows"
  /\ UNCHANGED <<markdown, coin_map, name_map, sorted,
                 seen_symbols, coin_count, file, prev_file>>

\* SkipRow with the problem of the line returned as an error of main
SkipRowFatal ==
  /\ pc = "rows"
  /\ pos <= Len(markdown)
  /\ ParseRow(markdown[pos]) = <<>>
  /\ pc' = "failed"
  /\ UNCHANGED <<markdown, pos, coin_map, name_map, sorted,
                 seen_symbols, coin_count, file, prev_file>>

\* filter_map returns None: the line is skipped with a warning
SkipRow ==
  /\ pc = "rows"
  /\ pos <= Len(markdown)
  /\ ParseRow(markdown[pos]) = <<>>
  /\ pos' = pos + 1
  /\ UNCHANGED <<markdown, pc, coin_map, name_map, sorted,
                 seen_symbols, coin_count, file, prev_file>>

\* filter_map returns Some(coin_type), which the first fold takes
AcceptRow ==
  /\ pc = "rows"
  /\ pos <= Len(markdown)
  /\ ParseRow(markdown[pos]) # <<>>
  /\ coin_map' = FoldIdentity(coin_map, ParseRow(markdown[pos])[1])
  /\ pos' = pos + 1
  /\ UNCHANGED <<markdown, pc, name_map, sorted,
                 seen_symbols, coin_count, file, prev_file>>

\* the line iterator is exhausted: the first fold returns
EndOfInput ==
  /\ pc \in {"skip", "rows"}
  /\ pos > Len(markdown)
  /\ pc' = "group"
  /\ UNCHANGED <<markdown, pos, coin_map, name_map, sorted,
                 seen_symbols, coin_count, file, prev_file>>

\* the second fold takes the entries of the first HashMap in the order
\* its into_iter yields them (any order)
SecondFold ==
  /\ pc = "group"
  /\ \E order \in Orders(coin_map) :
       name_map' = GroupByName(EmptyMap, Values(coin_map, order))
  /\ coin_map' = EmptyMap
  /\ pc' = "create"
  /\ UNCHANGED <<markdown, pos, sorted,
                 seen_symbols, coin_count, file, prev_file>>

\* coin.rs is created and its first three lines are written
CreateFile ==
  /\ pc = "create"
  /\ pc' = "sort"
  /\ UNCHANGED <<markdown, pos, coin_map, name_map, sorted,
                 seen_symbols, coin_count, file, prev_file>>

\* File::create or one of the first writeln! fails and main returns the
\* error
CreateFails ==
  /\ pc = "create"
  /\ pc' = "failed"
  /\ UNCHANGED <<markdown, pos, coin_map, name_map, sorted,
                 seen_symbols, coin_count, file, prev_file>>

\* sorted_by_key drains the lazy chain: the groups of the second HashMap,
\* in the order its into_iter yields them (any order), are renamed,
\* annotated and flattened, and the records are sorted
Sort ==
  /\ pc = "sort"
  /\ \E order \in Orders(name_map) :
       sorted' = sorted_by_key(Flatten(Values(name_map, order)))
  /\ name_map' = EmptyMap
  /\ pc' = "emit"
  /\ UNCHANGED <<markdown, pos, coin_map,
                 seen_symbols, coin_count, file, prev_file>>

\* one turn of the for loop: one table entry is written
EmitStep ==
  /\ pc = "emit"
  /\ coin_count < Len(sorted)
  /\ coin_count' = coin_count + 1
  /\ file' = Append(file, Entry(sorted[coin_count + 1], seen_symbols))
  /\ seen_symbols' = SeenAfter(sorted[coin_count + 1], seen_symbols)
  /\ UNCHANGED <<markdown, pc, pos, coin_map, name_map, sorted, prev_file>>

\* the for loop ends: the table is closed and main returns Ok(())
Finish ==
  /\ pc = "emit"
  /\ coin_count = Len(sorted)
  /\ pc' = "done"
  /\ UNCHANGED <<markdown, pos, coin_map, name_map, sorted,
                 seen_symbols, coin_count, file, prev_file>>

\* a writeln! of the for loop, or the one closing the table, fails and
\* main returns the error
WriteFails ==
  /\ pc = "emit"
  /\ pc' = "failed"
  /\ UNCHANGED <<markdown, pos, coin_map, name_map, sorted,
                 seen_symbols, coin_count, file, prev_file>>

\* the generator is run again on the same document
Rerun ==
  /\ pc = "done"
  /\ prev_file = <<>>
  /\ prev_file' = <<file>>
  /\ pc' = "skip"
  /\ pos' = 1
  /\ coin_map' = EmptyMap
  /\ name_map' = EmptyMap
  /\ sorted' = <<>>
  /\ seen_symbols' = {}
  /\ coin_count' = 0
  /\ file' = <<>>
  /\ UNCHANGED markdown

Next ==
  \/ SkipLine
  \/ FoundHeader
  \/ SkipRow
  \/ AcceptRow
  \/ EndOfInput
  \/ SecondFold
  \/ CreateFile
  \/ CreateFails
  \/ Sort
  \/ EmitStep
  \/ Finish
  \/ WriteFails

Spec == Init /\ [][Next]_vars

NextRerun == Next \/ Rerun

\* two runs of the generator on one document
SpecRerun == Init /\ [][NextRerun]_vars

(************************ vocabulary of the claims ***********************)

\* the candidate lines: those after the header and the line under it
TableRows ==
  LET h == IndexOf(markdown, SLIP_044_MARKDOWN_HEADER)
  IN  IF h = 0 THEN <<>> ELSE SubSeq(markdown, h + 2, Len(markdown))

\* the candidate lines the line iterator has yielded so far
RowsRead ==
  LET h == IndexOf(markdown, SLIP_044_MARKDOWN_HEADER)
  IN  IF h = 0 \/ pc = "skip" THEN <<>> ELSE SubSeq(markdown, h + 2, pos - 1)

\* a line with one of the row-level problems
Defective(line) ==
  LET cells == Split(line, "|")
  IN  \/ Len(cells) # 6
      \/ Trim(cells[5]) = <<>>
      \/ Trim(cells[5]) = <<"r","e","s","e","r","v","e","d">>
      \/ ~original_name_to_short(Trim(cells[5])).ok
      \/ parse_u32(Trim(cells[2])) = <<>>

\* the records built from the sound lines of a sequence of lines
RECURSIVE Built(_)
Built(lines) ==
  IF lines = <<>> THEN <<>>
  ELSE IF Defective(Head(lines)) THEN Built(Tail(lines))
  ELSE <<ParseRow(Head(lines))[1]>> \o Built(Tail(lines))

Range(s) == {s[i] : i \in 1..Len(s)}

\* the Merger is over: sorted holds every final record, in the order the
\* for loop writes them
Merged == pc \in {"emit", "done"}

\* the identifier grammar: [A-Za-z_][A-Za-z0-9_]*
IsIdentifier(s) ==
  /\ s # <<>>
  /\ s[1] \in AsciiAlpha \cup {"_"}
  /\ \A i \in 2..Len(s) : is_ascii_alphanumeric(s[i]) \/ s[i] = "_"

\* the ids of a written entry, read back from its bracketed list
EntryIds(entry) ==
  LET parts == Split(entry.ids, ",")
  IN  [i \in 1..Len(parts) |-> parse_u32(parts[i])[1]]

Ascending(ns) == \A i, j \in 1..Len(ns) : i < j => ns[i] <= ns[j]

Min(ns) == CHOOSE n \in Range(ns) : \A m \in Range(ns) : n <= m

Quoted(s) == <<"U+0022">> \o s \o <<"U+0022">>

(******************************* C1 **************************************)

\* C1: after the Merger the names of the final records are pairwise
\* distinct.  The code breaks this: two records with the same normalized
\* name and the same symbol but different display names both get
\* name_symbol.
C1_NamesPairwiseDistinct ==
  Merged =>
    \A i, j \in 1..Len(sorted) : i # j => sorted[i].name # sorted[j].name

(******************************* C2 **************************************)

\* C2: the name of every written entry matches the identifier grammar.
\* The code breaks this: a display name that begins with "(" yields the
\* empty name.
C2_NamesAreIdentifiers ==
  \A i \in 1..Len(file) : IsIdentifier(file[i].name)

(******************************* C3 **************************************)

\* C3: the ids of the final records are exactly the ids of the accepted
\* rows and no id occurs twice, neither within one record nor in two.
\* The code breaks this: a row accepted twice pushes its id twice.
C3_IdsRoundTrip ==
  Merged =>
    /\ UNION {Range(sorted[i].ids) : i \in 1..Len(sorted)}
         = {r.id : r \in Range(Built(TableRows))}
    /\ \A i \in 1..Len(sorted) :
         \A m, n \in 1..Len(sorted[i].ids) :
           m # n => sorted[i].ids[m] # sorted[i].ids[n]
    /\ \A i, j \in 1..Len(sorted) :
         i # j => Range(sorted[i].ids) \cap Range(sorted[j].ids) = {}

(******************************* C4 **************************************)

\* the symbol rule of the emitter, with SymbolOf naming what counts as the
\* symbol of a record
SymbolRule(SymbolOf(_)) ==
  /\ \A i \in 1..Len(file) :
       LET r == sorted[i]
           first == \A j \in 1..(i - 1) :
                      sorted[j].symbol = <<>> \/ SymbolOf(sorted[j]) # SymbolOf(r)
       IN  IF r.symbol = <<>>
           THEN file[i].symbol_ident = <<>> /\ file[i].symbol_alias = <<>>
           ELSE IF first
           THEN file[i].symbol_ident = SymbolOf(r) /\ file[i].symbol_alias = <<>>
           ELSE /\ file[i].symbol_ident = <<>>
                /\ file[i].symbol_alias = Quoted(SymbolOf(r))
  /\ \A i, j \in 1..Len(file) :
       (i # j /\ file[i].symbol_ident # <<>>)
         => file[i].symbol_ident # file[j].symbol_ident
  /\ seen_symbols =
       {SymbolOf(sorted[i]) : i \in {k \in 1..Len(file) : sorted[k].symbol # <<>>}}

RawSymbol(r) == r.symbol[1]

EscapedSymbol(r) == escape_rust_string(r.symbol[1])

\* C4 as stated: the rule holds of the symbols of the records.  It does
\* not: a record whose symbol is F, written after one whose symbol is $F,
\* is the first with its symbol and gets it as an alias.
C4_SymbolRuleOnRecordSymbols == Merged => SymbolRule(RawSymbol)

\* C4, amended: the rule holds of the symbols as escape_rust_string leaves
\* them: the first record with a given escaped symbol writes it bare and
\* no alias, every later one writes no bare symbol and the escaped symbol
\* quoted as alias, no two entries carry the same bare symbol, and a
\* record without symbol writes neither and adds nothing to seen_symbols.
C4_SymbolRuleOnEscapedSymbols == Merged => SymbolRule(EscapedSymbol)

\* Two records whose symbols differ and escape to the same text have both
\* been written, the second with an alias.
C4_Witness ==
  /\ pc = "done"
  /\ \E i, j \in 1..Len(file) :
       /\ i < j
       /\ sorted[i].symbol # <<>> /\ sorted[j].symbol # <<>>
       /\ sorted[i].symbol # sorted[j].symbol
       /\ EscapedSymbol(sorted[i]) = EscapedSymbol(sorted[j])
       /\ file[j].symbol_alias # <<>>
  /\ \E i \in 1..Len(file) : sorted[i].symbol = <<>>

(******************************* C5 **************************************)

\* C5: two runs on the same document write the same entries in the same
\* order, whatever order the two HashMaps iterate in.  The code breaks
\* this: the stable sort leaves two records with the same id in the order
\* the HashMaps yielded them.
C5_SameDocumentSameFile ==
  (pc = "done" /\ prev_file # <<>>) => file = prev_file[1]

(******************************* C6 **************************************)

C7_RowProblemsAreSkipped ==
  /\ pc = "rows" => coin_map = IdentityMerge(EmptyMap, Built(RowsRead))
  /\ pc = "done" =>
       LET sound == SelectSeq(TableRows, LAMBDA l : ~Defective(l))
       IN  /\ UNION {Range(EntryIds(file[i])) : i \in 1..Len(file)}
                = {parse_u32(Trim(Split(sound[i], "|")[2]))[1] :
                     i \in 1..Len(sound)}
           /\ Len(file) <= Len(sound)
  /\ pc = "failed" => pos > Len(markdown) /\ DOMAIN coin_map = {}

\* The run is done, a defective line stood between two sound ones, and
\* both sound lines are in the table written.
C7_Witness ==
  /\ pc = "done"
  /\ Len(TableRows) = 3
  /\ ~Defective(TableRows[1])
  /\ Defective(TableRows[2])
  /\ ~Defective(TableRows[3])
  /\ Len(file) = 2

(******************************* C8 **************************************)

\* C8: the identity merge applied to its own output gives that output
\* back.  The code breaks this: the fold pushes the id field of every
\* record it takes, so each kept record gets its id once more.
C8_IdentityMergeIdempotent ==
  (pc = "rows" /\ pos > Len(markdown)) =>
    \A order \in Orders(coin_map) :
      IdentityMerge(EmptyMap, Values(coin_map, order)) = coin_map

(******************************* C9 **************************************)

\* the trimmed cells of the sound lines read so far
SoundCellsRead ==
  LET sound == SelectSeq(RowsRead, LAMBDA l : ~Defective(l))
  IN  {[symbol |-> Trim(Split(sound[i], "|")[4]),
        name |-> Trim(Split(sound[i], "|")[5])] : i \in 1..Len(sound)}

\* C9 as stated: no built record carries a symbol with a character that is
\* neither ASCII alphanumeric nor underscore.  One does: the symbol cell
\* gets no override handling.
C9_SymbolsHandledLikeNames ==
  pc = "rows" =>
    \A key \in DOMAIN coin_map :
      coin_map[key].symbol # <<>> =>
        /\ coin_map[key].symbol[1] # <<>>
        /\ ~is_numeric(coin_map[key].symbol[1][1])
        /\ coin_map[key].symbol[1] # <<"$","D","A","G">>
        /\ ~IsIrregular(coin_map[key].symbol[1])

\* what C9, amended, allows as the symbol built from a trimmed cell
SymbolFits(cell, symbol) ==
  IF cell = <<>> THEN symbol = <<>>
  ELSE /\ symbol # <<>>
       /\ symbol[1] # <<>>
       /\ ~is_numeric(symbol[1][1])
       /\ symbol[1] # <<"$","D","A","G">>
       /\ IF cell = <<"$","D","A","G">> THEN symbol[1] = <<"D","A","G">>
          ELSE IF is_numeric(cell[1]) THEN symbol[1] = <<"_">> \o cell
          ELSE symbol[1] = cell

\* C9, amended: a symbol cell that is empty once trimmed gives an absent
\* symbol; any other gets an underscore in front when it begins with a
\* numeric character, $DAG becomes DAG, and nothing else is changed: a
\* character that is neither ASCII alphanumeric nor underscore stays in
\* the symbol of the built record.
C9_SymbolsPrefixedOnly ==
  pc = "rows" =>
    LET cells == SoundCellsRead
    IN  /\ \A c \in cells :
             \E key \in DOMAIN coin_map :
               /\ key[3] = c.name
               /\ coin_map[key].symbol = key[1]
               /\ SymbolFits(c.symbol, key[1])
        /\ \A key \in DOMAIN coin_map :
             \E c \in cells :
               key[3] = c.name /\ SymbolFits(c.symbol, key[1])

\* Records have been built from a cell beginning with a digit and holding
\* another irregular character, from $DAG and from an empty cell.
C9_Witness ==
  /\ pc = "rows"
  /\ \E key \in DOMAIN coin_map : key[1] = <<<<"_","1","-">>>>
  /\ \E key \in DOMAIN coin_map : key[1] = <<<<"D","A","G">>>>
  /\ \E key \in DOMAIN coin_map : key[1] = <<>>

(******************************* C10 *************************************)

\* C10: the id list of every written entry, and that of its Coin type doc
\* line, is in ascending order.  The code breaks this: the ids are written
\* in the order the rows were merged.
C10_IdListsAscending ==
  \A i \in 1..Len(file) :
    /\ Ascending(EntryIds(file[i]))
    /\ \E ids \in {sorted[i].ids} :
         /\ Ascending(ids)
         /\ file[i].doc[1] = <<"/","/","/"," ","C","o","i","n"," ","t","y","p","e",":"," ">> \o IdsText(ids, <<","," ">>)

====
